---- MODULE Spec2Model ----
(***************************************************************************)
(* Model of the bookinfo "details" service (main.go): the two HTTP         *)
(* handlers Health and GetDetails, the resolver getBookDetails, the        *)
(* external fetch fetchDetailsFromExternalService with its field mapping   *)
(* (getPrintType, getLanguage, getISBN), the JSON encoding of the reply,   *)
(* and the process-wide logger.  Every connection is served by its own     *)
(* goroutine; the steps of different connections interleave freely.        *)
(***************************************************************************)
EXTENDS Naturals, Sequences, FiniteSets, TLC

VARIABLES
    env,    \* the process environment entry ENABLE_EXTERNAL_BOOK_SERVICE: <<>> when unset, <<v>> when set to v
    reqs,   \* per connection: the request being served and the locals of its handler goroutine
    log     \* the lines written to the process-wide standard logger, in order

vars == <<env, reqs, log>>

---------------------------------------------------------------------------
(* Bounds *)

\* number of connections served concurrently under Spec
MaxConns == 2
\* longest industryIdentifiers list of an upstream item under SpecSeq
MaxIdents == 2

Conns == 1..MaxConns

\* path parameters offered to GetDetails; "" is a request without the mux variable
Ids == {"", "1", "0486424618"}

\* values of the environment entry
EnvValues == {<<>>, <<"true">>, <<"TRUE">>, <<"false">>}

---------------------------------------------------------------------------
(* JSON text, as a sequence of lexical tokens *)

Punct(s) == [t |-> "punct", s |-> s, n |-> 0]
DQ(s) == [t |-> "dq", s |-> s, n |-> 0]        \* "s" : a double-quoted string
SQ(s) == [t |-> "sq", s |-> s, n |-> 0]        \* 's' : a single-quoted string
Num(n) == [t |-> "num", s |-> "", n |-> n]
Lit(s) == [t |-> "lit", s |-> s, n |-> 0]      \* null, true, false
LF == [t |-> "ws", s |-> "\n", n |-> 0]
Text(s) == [t |-> "text", s |-> s, n |-> 0]    \* a run of plain text, not JSON

\* encoding/json omitempty: an empty string and a zero integer are left out
IsEmptyValue(tok) == (tok.t = "dq" /\ tok.s = "") \/ (tok.t = "num" /\ tok.n = 0)

\* the struct tags of BookDetails, in field order
BookDetailsMembers(b) ==
    << [k |-> "id",        v |-> DQ(b.ID)],
       [k |-> "author",    v |-> DQ(b.Author)],
       [k |-> "year",      v |-> DQ(b.Year)],
       [k |-> "type",      v |-> DQ(b.Type)],
       [k |-> "pages",     v |-> Num(b.Pages)],
       [k |-> "publisher", v |-> DQ(b.Publisher)],
       [k |-> "language",  v |-> DQ(b.Language)],
       [k |-> "ISBN-10",   v |-> DQ(b.ISBN10)],
       [k |-> "ISBN-13",   v |-> DQ(b.ISBN13)] >>

RECURSIVE JoinMembers(_)
JoinMembers(ms) ==
    IF ms = <<>> THEN <<>>
    ELSE <<DQ(Head(ms).k), Punct(":"), Head(ms).v>>
         \o (IF Len(ms) > 1 THEN <<Punct(",")>> \o JoinMembers(Tail(ms)) ELSE <<>>)

\* a *BookDetails is <<>> (nil) or <<b>>
Nil == <<>>

\* json.NewEncoder(w).Encode(bookDetails): null for a nil pointer, else the
\* object of the non-empty fields; Encode ends the value with a newline
Encode(p) ==
    IF p = Nil THEN <<Lit("null"), LF>>
    ELSE <<Punct("{")>>
         \o JoinMembers(SelectSeq(BookDetailsMembers(p[1]), LAMBDA m : ~IsEmptyValue(m.v)))
         \o <<Punct("}"), LF>>

\* --- reading JSON text (RFC 8259, values and objects of scalar members) ---
StripWs(toks) == SelectSeq(toks, LAMBDA k : k.t # "ws")

IsScalar(tok) ==
    \/ tok.t = "dq"
    \/ tok.t = "num"
    \/ tok.t = "lit" /\ tok.s \in {"null", "true", "false"}

IsObject(s) ==
    /\ Len(s) >= 2
    /\ s[1] = Punct("{")
    /\ s[Len(s)] = Punct("}")
    /\ \/ Len(s) = 2
       \/ /\ Len(s) % 4 = 1
          /\ \A i \in 2..(Len(s) - 1) :
                CASE i % 4 = 2 -> s[i].t = "dq"
                  [] i % 4 = 3 -> s[i] = Punct(":")
                  [] i % 4 = 0 -> IsScalar(s[i])
                  [] OTHER     -> s[i] = Punct(",")

WellFormedJSON(toks) ==
    LET s == StripWs(toks)
    IN  \/ Len(s) = 1 /\ IsScalar(s[1])
        \/ IsObject(s)

IsJSONNull(toks) == StripWs(toks) = <<Lit("null")>>

\* the positions of the member named key in a JSON object
MemberAt(toks, key) ==
    LET s == StripWs(toks)
    IN  IF IsObject(s)
        THEN {i \in 2..(Len(s) - 1) : i % 4 = 2 /\ s[i] = DQ(key)}
        ELSE {}

HasMember(toks, key) == MemberAt(toks, key) # {}

\* the value token of the member named key (of its last occurrence)
Member(toks, key) ==
    LET s == StripWs(toks)
        at == MemberAt(toks, key)
    IN  s[(CHOOSE i \in at : \A j \in at : j <= i) + 2]

\* a string member, "" when absent (omitempty left it out)
StringMember(toks, key) ==
    IF HasMember(toks, key) /\ Member(toks, key).t = "dq" THEN Member(toks, key).s ELSE ""

\* an integer member, 0 when absent
IntMember(toks, key) ==
    IF HasMember(toks, key) /\ Member(toks, key).t = "num" THEN Member(toks, key).n ELSE 0

\* json.Unmarshal of a reply body into a BookDetails value
DecodeBookDetails(toks) ==
    [ ID        |-> StringMember(toks, "id"),
      Author    |-> StringMember(toks, "author"),
      Year      |-> StringMember(toks, "year"),
      Type      |-> StringMember(toks, "type"),
      Pages     |-> IntMember(toks, "pages"),
      Publisher |-> StringMember(toks, "publisher"),
      Language  |-> StringMember(toks, "language"),
      ISBN10    |-> StringMember(toks, "ISBN-10"),
      ISBN13    |-> StringMember(toks, "ISBN-13") ]

---------------------------------------------------------------------------
(* The upstream answer: ExternalBookDetails *)

Ident(ty, v) == [Type |-> ty, Identifier |-> v]

Item(id, authors, publisher, date, idents, pages, printType, lang) ==
    [ ID |-> id,
      VolumeInfo |-> [ Authors             |-> authors,
                       Publisher           |-> publisher,
                       PublishedDate       |-> date,
                       IndustryIdentifiers |-> idents,
                       PageCount           |-> pages,
                       PrintType           |-> printType,
                       Language            |-> lang ] ]

\* the zero value of ExternalBookDetails: no items
ZeroExternalBookDetails == [Items |-> <<>>]

\* a reply body: text that is JSON for doc when valid, and otherwise text that
\* is not JSON at all (a truncated or HTML body) although it started out as doc
Body(valid, doc) == [valid |-> valid, doc |-> doc]

NoBody == Body(FALSE, ZeroExternalBookDetails)

\* json.Unmarshal(body, &externalBookDetails) with the error dropped: Unmarshal
\* checks the syntax of the whole text before it stores anything, so text that
\* is not JSON leaves the zero value
Unmarshal(body) == IF body.valid THEN body.doc ELSE ZeroExternalBookDetails

DoverItem ==
    Item("vol-1", <<"William Shakespeare">>, "Dover Publications", "2004",
         <<Ident("ISBN_13", "9780486424613"), Ident("ISBN_10", "0486424618")>>,
         128, "BOOK", "en")

OtherItem ==
    Item("1", <<"Anon", "Other">>, "", "1999-01", <<Ident("OTHER", "X")>>, 0, "MAGAZINE", "fr")

NoAuthorsItem ==
    Item("vol-3", <<>>, "PublisherY", "2001", <<>>, 10, "BOOK", "en")

\* the reply bodies offered under Spec
SampleBodies ==
    { Body(FALSE, [Items |-> <<DoverItem>>]),
      Body(TRUE, ZeroExternalBookDetails),
      Body(TRUE, [Items |-> <<NoAuthorsItem>>]),
      Body(TRUE, [Items |-> <<DoverItem, OtherItem>>]),
      Body(TRUE, [Items |-> <<OtherItem>>]) }

RECURSIVE SeqsUpTo(_, _)
SeqsUpTo(n, S) ==
    IF n = 0 THEN {<<>>}
    ELSE LET shorter == SeqsUpTo(n - 1, S)
         IN  shorter \cup {Append(q, x) : q \in {r \in shorter : Len(r) = n - 1}, x \in S}

IdentEntries == {Ident(ty, v) : ty \in {"ISBN_10", "ISBN_13", "OTHER"}, v \in {"111", "222"}}

\* the reply bodies offered under SpecSeq: one item, every combination
AllBodies ==
    { Body(TRUE, [Items |-> <<Item("vol", a, "P", "2004", ids, 128, pt, lg)>>]) :
        a \in {<<>>, <<"A">>},
        ids \in SeqsUpTo(MaxIdents, IdentEntries),
        pt \in {"BOOK", "book", "MAGAZINE"},
        lg \in {"en", "EN", "fr"} }

---------------------------------------------------------------------------
(* The resolver and the field mapping *)

\* os.Getenv: the value, "" when the entry is unset
Getenv(e) == IF e = <<>> THEN "" ELSE e[1]

UseExternalAnyCase(v) == v \in {"true", "TRUE"}

\* the test of getBookDetails
UseExternal(v) == v = "true"

\* a record that carries a count kept across requests
MockBookDetailsServedCount(id) ==
    [ ID |-> id, Author |-> "William Shakespeare", Year |-> "1595", Type |-> "paperback",
      Pages |-> 200 + Cardinality({c \in DOMAIN reqs : reqs[c].pc = "done"}),
      Publisher |-> "PublisherX", Language |-> "English",
      ISBN10 |-> "1234567890", ISBN13 |-> "123-1234567890" ]

\* the record of the mock path
MockBookDetails(id) ==
    [ ID |-> id, Author |-> "William Shakespeare", Year |-> "1595", Type |-> "paperback",
      Pages |-> 200, Publisher |-> "PublisherX", Language |-> "English",
      ISBN10 |-> "1234567890", ISBN13 |-> "123-1234567890" ]

LookupISBNFromID(id) == id

\* the isbn getBookDetails passes to fetchDetailsFromExternalService
LookupISBN(id) == "0486424618"

\* the URL of the outbound GET
ExternalURL(isbn) == "https://www.googleapis.com/books/v1/volumes?q=isbn:" \o isbn

getPrintTypeAnyCase(ext) ==
    IF ext.Items[1].VolumeInfo.PrintType \in {"BOOK", "book"} THEN "paperback" ELSE "unknown"

getPrintType(ext) ==
    IF ext.Items[1].VolumeInfo.PrintType = "BOOK" THEN "paperback" ELSE "unknown"

getLanguage(ext) ==
    IF ext.Items[1].VolumeInfo.Language = "en" THEN "English" ELSE "unknown"

RECURSIVE FirstIdentifier(_, _)
FirstIdentifier(kind, idents) ==
    IF idents = <<>> THEN "1234567890"
    ELSE IF Head(idents).Type = kind THEN Head(idents).Identifier
    ELSE FirstIdentifier(kind, Tail(idents))

RECURSIVE LastIdentifier(_, _)
LastIdentifier(kind, idents) ==
    IF idents = <<>> THEN "1234567890"
    ELSE IF idents[Len(idents)].Type = kind THEN idents[Len(idents)].Identifier
    ELSE LastIdentifier(kind, SubSeq(idents, 1, Len(idents) - 1))

getISBNLastMatch(kind, ext) == LastIdentifier(kind, ext.Items[1].VolumeInfo.IndustryIdentifiers)

\* the range loop of getISBN: the first entry of the kind, else the default
getISBN(kind, ext) == FirstIdentifier(kind, ext.Items[1].VolumeInfo.IndustryIdentifiers)

\* the index expressions of the mapping panic (index out of range) when there
\* is no first item, or when the first item has no author
IndexPanics(ext) ==
    \/ Len(ext.Items) = 0
    \/ Len(ext.Items[1].VolumeInfo.Authors) = 0

BookDetailsFromExternalItemID(id, ext) ==
    [ ID        |-> ext.Items[1].ID,
      Author    |-> ext.Items[1].VolumeInfo.Authors[1],
      Year      |-> ext.Items[1].VolumeInfo.PublishedDate,
      Type      |-> getPrintType(ext),
      Pages     |-> ext.Items[1].VolumeInfo.PageCount,
      Publisher |-> ext.Items[1].VolumeInfo.Publisher,
      Language  |-> getLanguage(ext),
      ISBN10    |-> getISBN("ISBN_10", ext),
      ISBN13    |-> getISBN("ISBN_13", ext) ]

\* the composite literal of fetchDetailsFromExternalService
BookDetailsFromExternal(id, ext) ==
    [ ID        |-> id,
      Author    |-> ext.Items[1].VolumeInfo.Authors[1],
      Year      |-> ext.Items[1].VolumeInfo.PublishedDate,
      Type      |-> getPrintType(ext),
      Pages     |-> ext.Items[1].VolumeInfo.PageCount,
      Publisher |-> ext.Items[1].VolumeInfo.Publisher,
      Language  |-> getLanguage(ext),
      ISBN10    |-> getISBN("ISBN_10", ext),
      ISBN13    |-> getISBN("ISBN_13", ext) ]

---------------------------------------------------------------------------
(* Responses *)

NoResponse == [status |-> 0, contentType |-> "", body |-> <<>>]

\* the literal Health writes
HealthBody ==
    <<Punct("{"), SQ("status"), Punct(":"), SQ("Details is healthy"), Punct("}")>>

HealthResponse ==
    [status |-> 200, contentType |-> "application/json", body |-> HealthBody]

\* http.Error(w, "please provide product id", 400)
BadRequestResponse ==
    [ status      |-> 400,
      contentType |-> "text/plain; charset=utf-8",
      body        |-> <<Text("please provide product id"), LF>> ]

DetailsResponse(p) ==
    [status |-> 200, contentType |-> "application/json", body |-> Encode(p)]

IdMissingNever(id) == FALSE

\* the guard of GetDetails
IdMissing(id) == id = ""

---------------------------------------------------------------------------
(* State of one connection *)

IdleReq ==
    [ pc          |-> "idle",
      route       |-> "",
      id          |-> "",
      toggle      |-> "",       \* what os.Getenv returned to this request
      getErr      |-> FALSE,    \* err of http.Get
      readErr     |-> FALSE,    \* err of ioutil.ReadAll
      body        |-> NoBody,   \* body read from the upstream response
      bookDetails |-> Nil,
      calls       |-> <<>>,     \* what the goroutine has called or read, in order
      outbound    |-> <<>>,     \* URLs of the GETs it has sent
      response    |-> NoResponse ]

Called(r, f) == \E i \in 1..Len(r.calls) : r.calls[i] = f

FetchFailedMsg == "Fetching details from external service failed with error %s\n"
ReadFailedMsg == "Can't read response from external service with error %s\n"

ErrorReturnFallThrough(r) ==
    [r EXCEPT !.pc = "map", !.body = Body(TRUE, [Items |-> <<DoverItem>>])]

\* "return nil" of the two error branches of fetchDetailsFromExternalService
ErrorReturn(r) == [r EXCEPT !.pc = "respond", !.bookDetails = Nil]

---------------------------------------------------------------------------
(* Actions *)

Init ==
    /\ env \in EnvValues
    /\ reqs = [c \in Conns |-> IdleReq]
    /\ log = <<>>

\* the router hands a request for /health to Health
AcceptHealth(c) ==
    /\ reqs[c].pc = "idle"
    /\ reqs' = [reqs EXCEPT ![c] = [@ EXCEPT !.pc = "handler", !.route = "/health"]]
    /\ UNCHANGED <<env, log>>

\* the router hands a request for /details/{id} to GetDetails
AcceptDetails(c) ==
    /\ reqs[c].pc = "idle"
    /\ \E id \in Ids :
         reqs' = [reqs EXCEPT ![c] =
                    [@ EXCEPT !.pc = "handler", !.route = "/details/{id}", !.id = id]]
    /\ UNCHANGED <<env, log>>

Health(c) ==
    /\ reqs[c].pc = "handler"
    /\ reqs[c].route = "/health"
    /\ reqs' = [reqs EXCEPT ![c] = [@ EXCEPT !.pc = "done", !.response = HealthResponse]]
    /\ UNCHANGED <<env, log>>

\* GetDetails up to the call of getBookDetails
GetDetails(c) ==
    /\ reqs[c].pc = "handler"
    /\ reqs[c].route = "/details/{id}"
    /\ reqs' = [reqs EXCEPT ![c] =
         IF IdMissing(@.id)
         THEN [@ EXCEPT !.pc = "done",
                        !.calls = Append(@, "mux.Vars"),
                        !.response = BadRequestResponse]
         ELSE [@ EXCEPT !.pc = "getBookDetails",
                        !.calls = Append(@, "mux.Vars")]]
    /\ UNCHANGED <<env, log>>

\* getBookDetails: read the toggle; mock record, or send the outbound GET
getBookDetails(c) ==
    /\ reqs[c].pc = "getBookDetails"
    /\ LET v == Getenv(env)
           r == [reqs[c] EXCEPT !.toggle = v,
                                !.calls = @ \o <<"getBookDetails", "os.Getenv">>]
       IN  reqs' = [reqs EXCEPT ![c] =
             IF UseExternal(v)
             THEN [r EXCEPT !.pc = "httpGet",
                            !.calls = @ \o <<"fetchDetailsFromExternalService", "http.Get">>,
                            !.outbound = Append(@, ExternalURL(LookupISBN(r.id)))]
             ELSE [r EXCEPT !.pc = "respond",
                            !.bookDetails = <<MockBookDetails(r.id)>>]]
    /\ UNCHANGED <<env, log>>

\* http.Get returns: with an error (logged, nil returned) or with a response
HttpGetReturns(c) ==
    /\ reqs[c].pc = "httpGet"
    /\ \E err \in BOOLEAN :
         IF err
         THEN /\ reqs' = [reqs EXCEPT ![c] = ErrorReturn([@ EXCEPT !.getErr = TRUE])]
              /\ log' = Append(log, FetchFailedMsg)
         ELSE /\ reqs' = [reqs EXCEPT ![c] = [@ EXCEPT !.pc = "readAll"]]
              /\ log' = log
    /\ UNCHANGED env

\* ioutil.ReadAll returns: with an error (logged, nil returned) or with the body
ReadAll(c, bodies) ==
    /\ reqs[c].pc = "readAll"
    /\ \/ /\ reqs' = [reqs EXCEPT ![c] =
                ErrorReturn([@ EXCEPT !.readErr = TRUE,
                                      !.calls = Append(@, "ioutil.ReadAll")])]
          /\ log' = Append(log, ReadFailedMsg)
       \/ /\ \E b \in bodies :
               reqs' = [reqs EXCEPT ![c] =
                  [@ EXCEPT !.pc = "map", !.body = b,
                            !.calls = Append(@, "ioutil.ReadAll")]]
          /\ log' = log
    /\ UNCHANGED env

\* json.Unmarshal and the composite literal: the record, or a panic that the
\* server recovers by closing the connection with nothing written to it
MapFields(c) ==
    /\ reqs[c].pc = "map"
    /\ LET ext == Unmarshal(reqs[c].body)
           r == [reqs[c] EXCEPT !.calls = @ \o <<"json.Unmarshal", "Items[0]">>]
       IN  reqs' = [reqs EXCEPT ![c] =
             IF IndexPanics(ext)
             THEN [r EXCEPT !.pc = "panicked"]
             ELSE [r EXCEPT !.pc = "respond",
                            !.bookDetails = <<BookDetailsFromExternal(r.id, ext)>>]]
    /\ UNCHANGED <<env, log>>

\* GetDetails after getBookDetails returned: header, status 200, encoded record
Respond(c) ==
    /\ reqs[c].pc = "respond"
    /\ reqs' = [reqs EXCEPT ![c] =
         [@ EXCEPT !.pc = "done",
                   !.calls = Append(@, "Encode"),
                   !.response = DetailsResponse(reqs[c].bookDetails)]]
    /\ UNCHANGED <<env, log>>

Step(c, bodies) ==
    \/ AcceptHealth(c)
    \/ AcceptDetails(c)
    \/ Health(c)
    \/ GetDetails(c)
    \/ getBookDetails(c)
    \/ HttpGetReturns(c)
    \/ ReadAll(c, bodies)
    \/ MapFields(c)
    \/ Respond(c)

\* concurrent connections, a sample of upstream replies
Next == \E c \in Conns : Step(c, SampleBodies)

Spec == Init /\ [][Next]_vars

\* one connection, every upstream reply within the bounds
InitSeq ==
    /\ env \in EnvValues
    /\ reqs = [c \in {1} |-> IdleReq]
    /\ log = <<>>

NextSeq == \E c \in {1} : Step(c, AllBodies)

SpecSeq == InitSeq /\ [][NextSeq]_vars

---------------------------------------------------------------------------
(* Properties *)

Finished(r) == r.pc \in {"done", "panicked"}
IsDetails(r) == r.route = "/details/{id}"
IsHealth(r) == r.route = "/health"
ExternalMode(r) == r.toggle = "true"
Count(q, x) == Cardinality({i \in 1..Len(q) : q[i] = x})

\* C1: with the toggle anything but "true" (unset included), a request for
\* /details/{id} with a non-empty id sends nothing upstream and ends with
\* status 200 and a body that decodes to the fixed mock record carrying id.
C1_MockModeReturnsMockRecord ==
    \A c \in DOMAIN reqs :
        LET r == reqs[c]
        IN  (IsDetails(r) /\ r.id # "" /\ Getenv(env) # "true") =>
              /\ r.outbound = <<>>
              /\ ~Called(r, "http.Get")
              /\ r.pc # "panicked"
              /\ r.pc = "done" =>
                   /\ r.response.status = 200
                   /\ WellFormedJSON(r.response.body)
                   /\ DecodeBookDetails(r.response.body) =
                        [ ID |-> r.id, Author |-> "William Shakespeare", Year |-> "1595",
                          Type |-> "paperback", Pages |-> 200, Publisher |-> "PublisherX",
                          Language |-> "English", ISBN10 |-> "1234567890",
                          ISBN13 |-> "123-1234567890" ]

C1_Witness ==
    \E c \in DOMAIN reqs :
        /\ reqs[c].pc = "done" /\ IsDetails(reqs[c]) /\ reqs[c].id = "0486424618"
        /\ env = <<"TRUE">>
        /\ reqs[c].response.status = 200

\* C2: every request for /details/{id} with a non-empty id, whatever the
\* upstream call did, ends with status 200 and a JSON body.
C2_EveryLookupEndsWith200 ==
    \A c \in DOMAIN reqs :
        LET r == reqs[c]
        IN  (IsDetails(r) /\ r.id # "" /\ Finished(r)) =>
              /\ r.response.status = 200
              /\ WellFormedJSON(r.response.body)

\* C3 as stated: the body of every reply to /details/{id} with a non-empty id
\* has an ID member equal to id.
C3_EveryReplyCarriesID ==
    \A c \in DOMAIN reqs :
        LET r == reqs[c]
        IN  (IsDetails(r) /\ r.id # "" /\ r.pc = "done") =>
              /\ HasMember(r.response.body, "id")
              /\ StringMember(r.response.body, "id") = r.id

\* C3: the body of every reply to /details/{id} with a non-empty id that
\* carries a record (is not null) has an ID member equal to id, in mock mode
\* and in external mode, whatever the upstream item holds.
C3_RecordReplyCarriesID ==
    \A c \in DOMAIN reqs :
        LET r == reqs[c]
        IN  (IsDetails(r) /\ r.id # "" /\ r.pc = "done" /\ ~IsJSONNull(r.response.body)) =>
              /\ HasMember(r.response.body, "id")
              /\ StringMember(r.response.body, "id") = r.id

C3_Witness ==
    \E c \in DOMAIN reqs :
        /\ reqs[c].pc = "done" /\ ExternalMode(reqs[c]) /\ reqs[c].id = "0486424618"
        /\ reqs[c].bookDetails # Nil
        /\ Unmarshal(reqs[c].body).Items[1].ID = "vol-1"

\* C4: a request that reaches GetDetails with an empty id ends with status 400
\* and a plain-text message; getBookDetails is not called, the toggle is not
\* read and nothing is sent upstream.
C4_EmptyIdIsBadRequest ==
    \A c \in DOMAIN reqs :
        LET r == reqs[c]
        IN  (IsDetails(r) /\ r.id = "" /\ r.pc # "handler") =>
              /\ r.pc = "done"
              /\ r.response.status = 400
              /\ r.response.contentType = "text/plain; charset=utf-8"
              /\ r.response.body # <<>> /\ r.response.body[1].t = "text"
              /\ ~Called(r, "getBookDetails")
              /\ ~Called(r, "os.Getenv")
              /\ ~Called(r, "http.Get")
              /\ r.toggle = ""
              /\ r.outbound = <<>>

C4_Witness ==
    \E c \in DOMAIN reqs :
        /\ reqs[c].pc = "done" /\ IsDetails(reqs[c]) /\ reqs[c].id = ""
        /\ env = <<"true">>
        /\ reqs[c].response.status = 400

\* C5: in external mode, when the outbound GET fails or the body cannot be
\* read, the error is logged, the resolver returns nil without touching the
\* payload, and the reply is status 200 with the JSON body null.
C5_FetchErrorYieldsNull ==
    /\ Count(log, FetchFailedMsg) = Cardinality({c \in DOMAIN reqs : reqs[c].getErr})
    /\ Count(log, ReadFailedMsg) = Cardinality({c \in DOMAIN reqs : reqs[c].readErr})
    /\ \A c \in DOMAIN reqs :
        LET r == reqs[c]
        IN  (r.getErr \/ r.readErr) =>
              /\ ExternalMode(r)
              /\ r.bookDetails = Nil
              /\ ~Called(r, "json.Unmarshal")
              /\ ~Called(r, "Items[0]")
              /\ r.pc \in {"respond", "done"}
              /\ r.pc = "done" =>
                   /\ r.response.status = 200
                   /\ r.response.contentType = "application/json"
                   /\ IsJSONNull(r.response.body)

C5_Witness ==
    \E c, d \in DOMAIN reqs :
        /\ reqs[c].pc = "done" /\ reqs[c].getErr /\ reqs[c].response.status = 200
        /\ reqs[d].pc = "done" /\ reqs[d].readErr /\ reqs[d].response.status = 200
        /\ Len(log) = 2

\* the record fetchDetailsFromExternalService built for r from the first item
Resolved(r) == ExternalMode(r) /\ r.pc \in {"respond", "done"} /\ r.bookDetails # Nil
FirstItem(r) == Unmarshal(r.body).Items[1].VolumeInfo

\* the identifier expected for kind: that of the entry of least index whose
\* type is kind, the literal default when there is none
ExpectedISBN(kind, idents) ==
    LET hits == {i \in 1..Len(idents) : idents[i].Type = kind}
    IN  IF hits = {} THEN "1234567890"
        ELSE idents[CHOOSE i \in hits : \A j \in hits : i <= j].Identifier

\* C6: in external mode the resolved ISBN-10 / ISBN-13 is the identifier of
\* the first entry of that kind in list order, "1234567890" when the list has
\* no entry of that kind; the entries of other kinds make no difference.
C6_FirstMatchingIdentifier ==
    \A c \in DOMAIN reqs :
        LET r == reqs[c]
        IN  Resolved(r) =>
              LET idents == FirstItem(r).IndustryIdentifiers
                  only(kind) == SelectSeq(idents, LAMBDA e : e.Type = kind)
              IN  /\ r.bookDetails[1].ISBN10 = ExpectedISBN("ISBN_10", idents)
                  /\ r.bookDetails[1].ISBN13 = ExpectedISBN("ISBN_13", idents)
                  /\ r.bookDetails[1].ISBN10 = ExpectedISBN("ISBN_10", only("ISBN_10"))
                  /\ r.bookDetails[1].ISBN13 = ExpectedISBN("ISBN_13", only("ISBN_13"))

C6_Witness ==
    \E c \in DOMAIN reqs :
        /\ Resolved(reqs[c]) /\ reqs[c].pc = "done"
        /\ FirstItem(reqs[c]).IndustryIdentifiers =
             <<Ident("ISBN_13", "222"), Ident("ISBN_13", "111")>>
        /\ reqs[c].bookDetails[1].ISBN13 = "222"
        /\ reqs[c].bookDetails[1].ISBN10 = "1234567890"

\* C7: in external mode the resolved Type is "paperback" exactly when the
\* print type of the first item is "BOOK" and "unknown" otherwise, and the
\* resolved Language is "English" exactly when its language code is "en" and
\* "unknown" otherwise.
C7_TypeAndLanguage ==
    \A c \in DOMAIN reqs :
        LET r == reqs[c]
        IN  Resolved(r) =>
              /\ r.bookDetails[1].Type \in {"paperback", "unknown"}
              /\ r.bookDetails[1].Type = "paperback" <=> FirstItem(r).PrintType = "BOOK"
              /\ r.bookDetails[1].Language \in {"English", "unknown"}
              /\ r.bookDetails[1].Language = "English" <=> FirstItem(r).Language = "en"

C7_Witness ==
    \E c \in DOMAIN reqs :
        /\ Resolved(reqs[c]) /\ reqs[c].pc = "done"
        /\ FirstItem(reqs[c]).PrintType = "book"
        /\ FirstItem(reqs[c]).Language = "en"
        /\ reqs[c].bookDetails[1].Type = "unknown"
        /\ reqs[c].bookDetails[1].Language = "English"

\* C8: every reply to /health has status 200, a JSON content type and a body
\* that is a well-formed JSON document whose status is "Details is healthy".
C8_HealthIsWellFormedJSON ==
    \A c \in DOMAIN reqs :
        LET r == reqs[c]
        IN  (IsHealth(r) /\ r.pc = "done") =>
              /\ r.response.status = 200
              /\ r.response.contentType = "application/json"
              /\ WellFormedJSON(r.response.body)
              /\ StringMember(r.response.body, "status") = "Details is healthy"

\* what a request is given: its route and id, the toggle it read, and what
\* the upstream call returned to it
Inputs(r) == <<r.route, r.id, r.toggle, r.getErr, r.readErr, r.body>>

\* C9: two finished requests that were given the same id, the same toggle
\* value and the same upstream result ended the same way with the same
\* reply, whatever ran before or alongside them.
C9_ReplyDependsOnOwnInputsOnly ==
    \A c, d \in DOMAIN reqs :
        (Finished(reqs[c]) /\ Finished(reqs[d]) /\ Inputs(reqs[c]) = Inputs(reqs[d])) =>
            /\ reqs[c].pc = reqs[d].pc
            /\ reqs[c].response = reqs[d].response

C9_Witness ==
    \E c, d \in DOMAIN reqs :
        /\ c # d
        /\ reqs[c].pc = "done" /\ reqs[d].pc = "done"
        /\ IsDetails(reqs[c]) /\ reqs[c].id = "1"
        /\ ExternalMode(reqs[c]) /\ reqs[c].bookDetails # Nil
        /\ Inputs(reqs[c]) = Inputs(reqs[d])
        /\ reqs[c].response.status = 200

====
